---- MODULE Spec2Model ----
(***************************************************************************)
(* Model of src/app.py: the RSVP intake API of the wedding backend.        *)
(*                                                                         *)
(* A string is a sequence of characters; a character is a one-element      *)
(* name.  The alphabet holds one representative of every character class   *)
(* that normalize_name, str.strip, str.split, int() and SQL LIKE tell      *)
(* apart:                                                                  *)
(*   "a" "g" "l" "m" "b"  lower-case letters                               *)
(*   "A" "G"              upper-case letters                               *)
(*   "U00E1" "U00C1"      precomposed a-acute, A-acute (NFD: base + U0301) *)
(*   "U0301"              COMBINING ACUTE ACCENT, category Mn              *)
(*   " "                  white space                                      *)
(*   "_" "%"              the LIKE wildcards                               *)
(*   "2" "x"              a digit and a non-digit (for int())              *)
(***************************************************************************)
EXTENDS Integers, Sequences, FiniteSets, TLC

\* ------------------------------------------------------------------ bounds
NumRequests == 2
MaxLen == 3

Requests == 1..NumRequests

\* ------------------------------------------------------- character classes
Decompose(c) ==
    IF c = "U00E1" THEN <<"a", "U0301">>
    ELSE IF c = "U00C1" THEN <<"A", "U0301">>
    ELSE <<c>>

Category(c) ==
    IF c = "U0301" THEN "Mn"
    ELSE IF c = " " THEN "Zs"
    ELSE IF c \in {"A", "G", "U00C1"} THEN "Lu"
    ELSE IF c \in {"a", "g", "l", "m", "b", "x", "U00E1"} THEN "Ll"
    ELSE IF c = "2" THEN "Nd"
    ELSE "Po"

Lower(c) ==
    IF c = "A" THEN "a"
    ELSE IF c = "G" THEN "g"
    ELSE IF c = "U00C1" THEN "U00E1"
    ELSE c

IsSpace(c) == c = " "

\* --------------------------------------------------------- string helpers
RECURSIVE NFD(_)
NFD(s) == IF s = <<>> THEN <<>> ELSE Decompose(Head(s)) \o NFD(Tail(s))

RECURSIVE RemoveMn(_)
RemoveMn(s) ==
    IF s = <<>> THEN <<>>
    ELSE IF Category(Head(s)) = "Mn" THEN RemoveMn(Tail(s))
    ELSE <<Head(s)>> \o RemoveMn(Tail(s))

LowerStr(s) == [i \in 1..Len(s) |-> Lower(s[i])]

RECURSIVE LStrip(_)
LStrip(s) ==
    IF s = <<>> THEN <<>>
    ELSE IF IsSpace(Head(s)) THEN LStrip(Tail(s))
    ELSE s

RECURSIVE RStrip(_)
RStrip(s) ==
    IF s = <<>> THEN <<>>
    ELSE IF IsSpace(s[Len(s)]) THEN RStrip(SubSeq(s, 1, Len(s) - 1))
    ELSE s

Strip(s) == RStrip(LStrip(s))

\* str.split(): the maximal runs of non-white-space characters, in order.
RECURSIVE SplitFrom(_, _)
SplitFrom(s, cur) ==
    IF s = <<>> THEN (IF cur = <<>> THEN <<>> ELSE <<cur>>)
    ELSE IF IsSpace(Head(s))
         THEN (IF cur = <<>> THEN <<>> ELSE <<cur>>) \o SplitFrom(Tail(s), <<>>)
    ELSE SplitFrom(Tail(s), Append(cur, Head(s)))

Split(s) == SplitFrom(s, <<>>)

\* SQL  s LIKE pat : "%" matches any run of characters, "_" any one
\* character, every other pattern character matches itself.
RECURSIVE Like(_, _)
Like(s, pat) ==
    IF pat = <<>> THEN s = <<>>
    ELSE IF Head(pat) = "%"
         THEN Like(s, Tail(pat)) \/ (s # <<>> /\ Like(Tail(s), pat))
    ELSE IF s = <<>> THEN FALSE
    ELSE IF Head(pat) = "_" THEN Like(Tail(s), Tail(pat))
    ELSE Head(s) = Head(pat) /\ Like(Tail(s), Tail(pat))

\* -------------------------------------------------------------- Normalizer
\* A normalizer that trims before it removes the accents.
normalize_name_strip_first(name) == LowerStr(RemoveMn(Strip(NFD(name))))

normalize_name(name) == Strip(LowerStr(RemoveMn(NFD(name))))


\* ------------------------------------------------------------ submissions
\* The body of a POST /api/guests is a dict: a function from the field
\* names it carries to their string values.
required_fields == <<"nombre", "apellidos", "asistencia", "acompanado">>

Body(n, ap) ==
    ("nombre" :> n) @@ ("apellidos" :> ap) @@
    ("asistencia" :> <<"a">>) @@ ("acompanado" :> <<"b">>)

Without(d, fields) == [f \in (DOMAIN d) \ fields |-> d[f]]

Emptied(d, fields) == [f \in DOMAIN d |-> IF f \in fields THEN <<>> ELSE d[f]]

RequiredSet == {required_fields[i] : i \in 1..Len(required_fields)}

\* Complete submissions: one first name in two spellings and a second first
\* name, with one surname, two surnames, another surname, a surname that is
\* a LIKE wildcard and a blank one.
NamedSubmissions ==
    {Body(<<"A">>, ap) : ap \in {<<"g">>, <<"G", " ", "l">>, <<"m">>, <<"_">>, <<" ">>}}
    \cup {Body(<<"U00E1", " ">>, <<"g">>), Body(<<"b">>, <<"g">>)}

\* Submissions with required fields absent or empty.
IncompleteSubmissions ==
    {Without(Body(<<"A">>, <<"g">>), {f}) : f \in RequiredSet}
    \cup {Emptied(Body(<<"A">>, <<"g">>), {f}) : f \in RequiredSet}
    \cup {Without(Body(<<"A">>, <<"g">>), {"nombre", "asistencia"}),
          Without(Body(<<"A">>, <<"g">>), {"asistencia", "acompanado"}),
          Without(Body(<<"A">>, <<"g">>), RequiredSet),
          Emptied(Without(Body(<<"A">>, <<"g">>), {"asistencia"}), {"apellidos"}),
          Without(Body(<<"A">>, <<"g">>), {"acompanado"}) @@ ("adultos" :> <<"x">>)}

\* Complete submissions that carry the optional counters.
OptionalSubmissions ==
    {Body(<<"A">>, <<"g">>) @@ ("adultos" :> <<" ", "2">>) @@ ("ninos" :> <<"2">>),
     Body(<<"A">>, <<"g">>) @@ ("adultos" :> <<"x">>),
     Body(<<"A">>, <<"g">>) @@ ("ninos" :> <<>>)}

Submissions == NamedSubmissions \cup IncompleteSubmissions \cup OptionalSubmissions

NoData == [f \in {} |-> <<>>]

\* ------------------------------------------------------------------ state
VARIABLES
    GOOGLE_APPS_SCRIPT_URL, \* TRUE iff the environment sets the endpoint URL
    guests,                 \* the rows of table guests, in insertion order
    pc,                     \* pc[r]: where request r is inside create_guest
    data,                   \* data[r]: the submitted body
    guest_data,             \* guest_data[r]: trimmed nombre and apellidos
    first_name_normalized,
    last_names_normalized,
    new_guest,              \* new_guest[r]: id of the committed row, 0 if none
    sheets,                 \* sheets[r]: what the Apps Script call met
    sync_calls,             \* sync_calls[r]: calls of add_to_google_sheets
    response,               \* response[r]: the HTTP response, status 0 if none
    log,                    \* log[r]: the last log line of the request
    name, once, twice, phase   \* the normalizer applied to a free string

vars == <<GOOGLE_APPS_SCRIPT_URL, guests, pc, data, guest_data,
          first_name_normalized, last_names_normalized, new_guest, sheets,
          sync_calls, response, log, name, once, twice, phase>>

handler_vars == <<GOOGLE_APPS_SCRIPT_URL, guests, pc, data, guest_data,
                  first_name_normalized, last_names_normalized, new_guest,
                  sheets, sync_calls, response, log>>

norm_vars == <<name, once, twice, phase>>

\* -------------------------------------------------------------- responses
NoResponse == [status |-> 0, error |-> "", field |-> "", existing |-> <<>>,
               synced |-> FALSE]

MissingField(f) == [status |-> 400, error |-> "Missing required field",
                    field |-> f, existing |-> <<>>, synced |-> FALSE]

AlreadyRegistered == [status |-> 409, error |-> "Este nombre ya ha sido registrado",
                      field |-> "", existing |-> <<>>, synced |-> FALSE]

PossibleDuplicate(g) == [status |-> 409, error |-> "Posible duplicado detectado",
                         field |-> "", existing |-> <<g.nombre, g.apellidos>>,
                         synced |-> FALSE]

Created(sheets_success) == [status |-> 201, error |-> "", field |-> "",
                            existing |-> <<>>, synced |-> sheets_success]

ServerError == [status |-> 500, error |-> "Error al procesar la confirmacion",
                field |-> "", existing |-> <<>>, synced |-> FALSE]

\* ------------------------------------------------------------------ Guest
Guest(id, gd, fnn, lnn) ==
    [id |-> id, nombre |-> gd.nombre, apellidos |-> gd.apellidos,
     nombre_normalized |-> fnn, apellidos_normalized |-> lnn]

Rows == {guests[i] : i \in 1..Len(guests)}

\* A constraint declared on the display columns.
uix_guests_display_names(rows, g) ==
    \A h \in rows : ~(h.nombre = g.nombre /\ h.apellidos = g.apellidos)

\* UniqueConstraint('nombre_normalized', 'apellidos_normalized')
uix_guests_normalized_names(rows, g) ==
    \A h \in rows : ~(h.nombre_normalized = g.nombre_normalized
                      /\ h.apellidos_normalized = g.apellidos_normalized)


\* -------------------------------------------------------- handler helpers
\* Validation that only looks at whether the field is present.
first_missing_absent_only(d) ==
    LET missing == {i \in 1..Len(required_fields) : required_fields[i] \notin DOMAIN d}
    IN  IF missing = {} THEN ""
        ELSE required_fields[CHOOSE i \in missing : \A j \in missing : i <= j]

\* The first required field that is absent or empty, "" if there is none.
first_missing(d) ==
    LET missing == {i \in 1..Len(required_fields) :
                       \/ required_fields[i] \notin DOMAIN d
                       \/ d[required_fields[i]] = <<>>}
    IN  IF missing = {} THEN ""
        ELSE required_fields[CHOOSE i \in missing : \A j \in missing : i <= j]

\* A conversion that never raises.
int_parses_anything(s) == TRUE

\* int(s) returns for an optionally padded run of digits and raises
\* ValueError for anything else.
int_parses(s) ==
    LET t == Strip(s)
    IN  t # <<>> /\ \A i \in 1..Len(t) : Category(t[i]) = "Nd"

\* int(data.get(field, 0))
int_field_ok(d, f) == IF f \in DOMAIN d THEN int_parses(d[f]) ELSE TRUE

\* Stage 1 on the display columns instead of the normalized ones.
exact_matches_display(rows, gd, fnn, lnn) ==
    {g \in rows : g.nombre = gd.nombre /\ g.apellidos = gd.apellidos}

\* Guest.query.filter_by(nombre_normalized=..., apellidos_normalized=...)
exact_matches(rows, gd, fnn, lnn) ==
    {g \in rows : g.nombre_normalized = fnn /\ g.apellidos_normalized = lnn}

\* Strategy 2: the rows the partial last names query selects.
partial_matches(rows, fnn, lnn) ==
    LET last_names_parts == Split(lnn)
    IN  IF last_names_parts = <<>> THEN {}
        ELSE LET first_last_name == last_names_parts[1]
             IN  {g \in rows :
                    /\ g.nombre_normalized = fnn
                    /\ \/ g.apellidos_normalized = first_last_name
                       \/ Like(g.apellidos_normalized, first_last_name \o <<" ", "%">>)
                       \/ Like(lnn, g.apellidos_normalized \o <<" ", "%">>)}

\* An IntegrityError that only the outer handler catches.
on_integrity_error_uncaught == ServerError

\* except IntegrityError: rollback, 409.
on_integrity_error == AlreadyRegistered

PostOutcomes == {"exception", "status_500", "status_200"}

\* A sync without the try/except around the POST.
add_to_google_sheets_unguarded(met) ==
    IF met = "not_configured" THEN [raised |-> FALSE, value |-> FALSE]
    ELSE IF met = "exception" THEN [raised |-> TRUE, value |-> FALSE]
    ELSE [raised |-> FALSE, value |-> (met = "status_200")]

\* What add_to_google_sheets_via_script does with what the POST met.
add_to_google_sheets_via_script(met) ==
    IF met = "not_configured" THEN [raised |-> FALSE, value |-> FALSE]
    ELSE IF met = "exception" THEN [raised |-> FALSE, value |-> FALSE]
    ELSE [raised |-> FALSE, value |-> (met = "status_200")]

\* ------------------------------------------------------------------- Init
Strings(n) == UNION {[1..k -> {"a", "A", "U00E1", "U00C1", "U0301", " "}] : k \in 0..n}

InitHandlers ==
    /\ guests = <<>>
    /\ pc = [r \in Requests |-> "idle"]
    /\ data = [r \in Requests |-> NoData]
    /\ guest_data = [r \in Requests |-> [nombre |-> <<>>, apellidos |-> <<>>]]
    /\ first_name_normalized = [r \in Requests |-> <<>>]
    /\ last_names_normalized = [r \in Requests |-> <<>>]
    /\ new_guest = [r \in Requests |-> 0]
    /\ sheets = [r \in Requests |-> "none"]
    /\ sync_calls = [r \in Requests |-> 0]
    /\ response = [r \in Requests |-> NoResponse]
    /\ log = [r \in Requests |-> ""]

Init ==
    /\ GOOGLE_APPS_SCRIPT_URL \in BOOLEAN
    /\ InitHandlers
    /\ name = <<>> /\ once = <<>> /\ twice = <<>> /\ phase = "off"

\* ---------------------------------------------------- create_guest, steps
Finish(r, resp, line) ==
    /\ pc' = [pc EXCEPT ![r] = "done"]
    /\ response' = [response EXCEPT ![r] = resp]
    /\ log' = [log EXCEPT ![r] = line]

\* Lines 182-212: read the body, validate, prepare guest_data, normalize.
create_guest_receive(r) ==
    /\ pc[r] = "idle"
    /\ \E d \in Submissions :
         /\ data' = [data EXCEPT ![r] = d]
         /\ IF first_missing(d) # ""
            THEN /\ Finish(r, MissingField(first_missing(d)), "validation")
                 /\ UNCHANGED <<guest_data, first_name_normalized, last_names_normalized>>
            ELSE IF ~(int_field_ok(d, "adultos") /\ int_field_ok(d, "ninos"))
            THEN /\ Finish(r, ServerError, "exception")
                 /\ UNCHANGED <<guest_data, first_name_normalized, last_names_normalized>>
            ELSE /\ guest_data' = [guest_data EXCEPT ![r] =
                        [nombre |-> Strip(d["nombre"]), apellidos |-> Strip(d["apellidos"])]]
                 /\ first_name_normalized' = [first_name_normalized EXCEPT ![r] =
                        normalize_name(Strip(d["nombre"]))]
                 /\ last_names_normalized' = [last_names_normalized EXCEPT ![r] =
                        normalize_name(Strip(d["apellidos"]))]
                 /\ pc' = [pc EXCEPT ![r] = "stage1"]
                 /\ UNCHANGED <<response, log>>
    /\ UNCHANGED <<GOOGLE_APPS_SCRIPT_URL, guests, new_guest, sheets, sync_calls>>
    /\ UNCHANGED norm_vars

\* Lines 218-227: the exact match query and its 409.
create_guest_stage1(r) ==
    /\ pc[r] = "stage1"
    /\ LET existing_guest == exact_matches(Rows, guest_data[r],
                                 first_name_normalized[r], last_names_normalized[r])
       IN  IF existing_guest # {}
           THEN Finish(r, AlreadyRegistered, "exact")
           ELSE /\ pc' = [pc EXCEPT ![r] = "stage2"]
                /\ UNCHANGED <<response, log>>
    /\ UNCHANGED <<GOOGLE_APPS_SCRIPT_URL, guests, data, guest_data,
                   first_name_normalized, last_names_normalized, new_guest,
                   sheets, sync_calls>>
    /\ UNCHANGED norm_vars

\* Lines 229-253: the partial last names query and its 409.  The query has
\* no ORDER BY, so first() may return any of the selected rows.
create_guest_stage2(r) ==
    /\ pc[r] = "stage2"
    /\ LET found == partial_matches(Rows, first_name_normalized[r],
                                    last_names_normalized[r])
       IN  IF found # {}
           THEN \E potential_duplicate \in found :
                    Finish(r, PossibleDuplicate(potential_duplicate), "partial")
           ELSE /\ pc' = [pc EXCEPT ![r] = "commit"]
                /\ UNCHANGED <<response, log>>
    /\ UNCHANGED <<GOOGLE_APPS_SCRIPT_URL, guests, data, guest_data,
                   first_name_normalized, last_names_normalized, new_guest,
                   sheets, sync_calls>>
    /\ UNCHANGED norm_vars

\* Lines 255-280: add the row and commit; the unique constraint decides.
create_guest_commit(r) ==
    /\ pc[r] = "commit"
    /\ LET row == Guest(Len(guests) + 1, guest_data[r],
                        first_name_normalized[r], last_names_normalized[r])
       IN  IF uix_guests_normalized_names(Rows, row)
           THEN /\ guests' = Append(guests, row)
                /\ new_guest' = [new_guest EXCEPT ![r] = row.id]
                /\ pc' = [pc EXCEPT ![r] = "sync"]
                /\ log' = [log EXCEPT ![r] = "saved"]
                /\ UNCHANGED response
           ELSE /\ Finish(r, on_integrity_error,
                          IF on_integrity_error.status = 409 THEN "constraint" ELSE "exception")
                /\ UNCHANGED <<guests, new_guest>>
    /\ UNCHANGED <<GOOGLE_APPS_SCRIPT_URL, data, guest_data,
                   first_name_normalized, last_names_normalized, sheets, sync_calls>>
    /\ UNCHANGED norm_vars

\* A sync that tries a second time when the first attempt fails.
create_guest_sync_retry(r) ==
    /\ pc[r] = "sync"
    /\ \E met \in (IF GOOGLE_APPS_SCRIPT_URL THEN PostOutcomes ELSE {"not_configured"}) :
         LET sheets_success == add_to_google_sheets_via_script(met)
         IN  /\ sheets' = [sheets EXCEPT ![r] = met]
             /\ sync_calls' = [sync_calls EXCEPT ![r] = @ + (IF sheets_success.value THEN 1 ELSE 2)]
             /\ Finish(r, Created(sheets_success.value), "success")
    /\ UNCHANGED <<GOOGLE_APPS_SCRIPT_URL, guests, data, guest_data,
                   first_name_normalized, last_names_normalized, new_guest>>
    /\ UNCHANGED norm_vars

\* Lines 282-301 (and 303-309 should the sync raise): one call of
\* add_to_google_sheets, then the 201.
create_guest_sync(r) ==
    /\ pc[r] = "sync"
    /\ \E met \in (IF GOOGLE_APPS_SCRIPT_URL THEN PostOutcomes ELSE {"not_configured"}) :
         LET sheets_success == add_to_google_sheets_via_script(met)
         IN  /\ sheets' = [sheets EXCEPT ![r] = met]
             /\ sync_calls' = [sync_calls EXCEPT ![r] = @ + 1]
             /\ IF sheets_success.raised
                THEN Finish(r, ServerError, "exception")
                ELSE Finish(r, Created(sheets_success.value), "success")
    /\ UNCHANGED <<GOOGLE_APPS_SCRIPT_URL, guests, data, guest_data,
                   first_name_normalized, last_names_normalized, new_guest>>
    /\ UNCHANGED norm_vars

Next ==
    \E r \in Requests :
        \/ create_guest_receive(r)
        \/ create_guest_stage1(r)
        \/ create_guest_stage2(r)
        \/ create_guest_commit(r)
        \/ create_guest_sync(r)

Spec == Init /\ [][Next]_vars

\* ------------------------------------------- the normalizer on any string
InitNorm ==
    /\ GOOGLE_APPS_SCRIPT_URL = FALSE
    /\ InitHandlers
    /\ name \in Strings(MaxLen)
    /\ once = <<>> /\ twice = <<>> /\ phase = "input"

NormalizeOnce ==
    /\ phase = "input"
    /\ once' = normalize_name(name)
    /\ phase' = "once"
    /\ UNCHANGED <<name, twice>>
    /\ UNCHANGED handler_vars

NormalizeTwice ==
    /\ phase = "once"
    /\ twice' = normalize_name(once)
    /\ phase' = "twice"
    /\ UNCHANGED <<name, once>>
    /\ UNCHANGED handler_vars

NextNorm == NormalizeOnce \/ NormalizeTwice

SpecNorm == InitNorm /\ [][NextNorm]_vars

TypeOK ==
    /\ \A r \in Requests :
         /\ pc[r] \in {"idle", "stage1", "stage2", "commit", "sync", "done"}
         /\ response[r].status \in {0, 201, 400, 409, 500}
         /\ new_guest[r] \in 0..Len(guests)
    /\ phase \in {"off", "input", "once", "twice"}

\* ================================================================ properties
\* Vocabulary of the properties, stated on the submitted bodies and on the
\* display names of the stored guests.
StartsWith(s, p) == Len(s) >= Len(p) /\ SubSeq(s, 1, Len(p)) = p

Present(d, f) == f \in DOMAIN d /\ d[f] # <<>>

RequiredPresent(d) ==
    Present(d, "nombre") /\ Present(d, "apellidos")
    /\ Present(d, "asistencia") /\ Present(d, "acompanado")

FirstAbsentOrEmpty(d) ==
    IF ~Present(d, "nombre") THEN "nombre"
    ELSE IF ~Present(d, "apellidos") THEN "apellidos"
    ELSE IF ~Present(d, "asistencia") THEN "asistencia"
    ELSE "acompanado"

IsIntegerText(s) ==
    LET t == Strip(s) IN t # <<>> /\ \A i \in 1..Len(t) : t[i] = "2"

CountersAreIntegers(d) ==
    /\ ("adultos" \in DOMAIN d => IsIntegerText(d["adultos"]))
    /\ ("ninos" \in DOMAIN d => IsIntegerText(d["ninos"]))

Validated(r) == pc[r] # "idle" /\ RequiredPresent(data[r])

FirstKey(r) == normalize_name(data[r]["nombre"])
LastKey(r) == normalize_name(data[r]["apellidos"])

SameKey(q, r) ==
    Validated(q) /\ Validated(r) /\ FirstKey(q) = FirstKey(r) /\ LastKey(q) = LastKey(r)

Inserted(r) ==
    /\ new_guest[r] # 0
    /\ \E g \in Rows : /\ g.id = new_guest[r]
                       /\ g.nombre = Strip(data[r]["nombre"])
                       /\ g.apellidos = Strip(data[r]["apellidos"])

OneRowPerCommit ==
    Len(guests) = Cardinality({r \in Requests : new_guest[r] # 0})

SyncFailed(r) == sheets[r] \in {"not_configured", "exception", "status_500"}

\* The partial-surname rule as the specification words it.
SurnameRule(S, T, submitted) ==
    S = T \/ StartsWith(S, T \o <<" ">>) \/ StartsWith(submitted, S \o <<" ">>)

RuleMatches(r) ==
    IF Split(LastKey(r)) = <<>> THEN {}
    ELSE {g \in Rows : /\ normalize_name(g.nombre) = FirstKey(r)
                       /\ SurnameRule(normalize_name(g.apellidos),
                                      Split(LastKey(r))[1], LastKey(r))}

ExactRows(r) ==
    {g \in Rows : /\ normalize_name(g.nombre) = FirstKey(r)
                  /\ normalize_name(g.apellidos) = LastKey(r)}

FirstToken(x) == IF Split(x) = <<>> THEN <<>> ELSE Split(x)[1]

OneWayMatch(x, y) ==
    \/ (Split(y) # <<>> /\ x = FirstToken(y))
    \/ (Split(y) # <<>> /\ StartsWith(x, FirstToken(y) \o <<" ">>))
    \/ StartsWith(x, y \o <<" ">>)

\* C1: no two stored guests have the same pair (normalized first name,
\* normalized last names), however the steps of the submissions interleave.
C1_UniqueNormalizedPair ==
    \A i, j \in 1..Len(guests) :
        i # j => \/ normalize_name(guests[i].nombre) # normalize_name(guests[j].nombre)
                 \/ normalize_name(guests[i].apellidos) # normalize_name(guests[j].apellidos)

\* Two submissions of one pair both reached the insert; the table holds one.
C1_Witness ==
    /\ Len(guests) = 1
    /\ \E q, r \in Requests : q # r /\ SameKey(q, r) /\ new_guest[q] # 0
                              /\ pc[r] = "done" /\ log[r] = "constraint"

\* C2: of the submissions of one normalized pair that pass both lookups, the
\* first to commit inserts its row and every later one is answered 409 with
\* the already-registered message, the table untouched; none is answered 500.
C2_RaceLoserGets409 ==
    [][\A r \in Requests :
          (pc[r] = "commit" /\ pc'[r] # "commit") =>
              IF \E q \in Requests \ {r} : SameKey(q, r) /\ new_guest[q] # 0
              THEN /\ response'[r] = AlreadyRegistered
                   /\ guests' = guests
                   /\ new_guest'[r] = 0
                   /\ pc'[r] = "done"
              ELSE /\ Len(guests') = Len(guests) + 1
                   /\ new_guest'[r] = Len(guests')
                   /\ response'[r].status = 0]_vars

\* Two spellings of one name raced: one got 201, the other the 409 of the
\* constraint.
C2_Witness ==
    \E q, r \in Requests :
        /\ q # r /\ SameKey(q, r) /\ data[q] # data[r]
        /\ pc[q] = "done" /\ response[q].status = 201
        /\ pc[r] = "done" /\ log[r] = "constraint" /\ response[r] = AlreadyRegistered

C4_SyncFailureIsolated ==
    \A r \in Requests :
        (pc[r] = "done" /\ SyncFailed(r)) =>
            /\ response[r] = Created(FALSE)
            /\ Inserted(r)

\* The POST raised, and another request got a non-200 status.
C4_Witness ==
    \E q, r \in Requests :
        /\ pc[q] = "done" /\ sheets[q] = "exception" /\ response[q].status = 201
        /\ pc[r] = "done" /\ sheets[r] = "status_500" /\ response[r].status = 201

\* C5: the stage-1 lookup of a submission whose normalized pair is that of a
\* stored guest answers 409 with the already-registered message and leaves
\* the table unchanged, also when a partial-surname match exists.
C5_ExactDuplicate ==
    [][\A r \in Requests :
          (pc[r] = "stage1" /\ pc'[r] # "stage1" /\ ExactRows(r) # {}) =>
              /\ response'[r] = AlreadyRegistered
              /\ pc'[r] = "done"
              /\ guests' = guests]_vars

\* Refused as an exact duplicate of a guest spelled differently, while the
\* partial-surname rule matches too.
C5_Witness ==
    \E r \in Requests :
        /\ pc[r] = "done" /\ log[r] = "exact" /\ response[r] = AlreadyRegistered
        /\ \E g \in ExactRows(r) : g.nombre # Strip(data[r]["nombre"])
        /\ RuleMatches(r) # {}

\* C6: with no exact match, the stage-2 lookup answers 409 with the
\* possible-duplicate message naming a stored guest if and only if a stored
\* guest of the same normalized first name matches the surname rule;
\* otherwise the submission proceeds to the insert.
C6_PartialIffRule ==
    [][\A r \in Requests :
          (pc[r] = "stage2" /\ pc'[r] # "stage2" /\ ExactRows(r) = {}) =>
              IF RuleMatches(r) # {}
              THEN /\ response'[r].status = 409
                   /\ response'[r].error = "Posible duplicado detectado"
                   /\ \E g \in Rows : response'[r].existing = <<g.nombre, g.apellidos>>
              ELSE pc'[r] = "commit" /\ response'[r].status = 0]_vars

\* C7: a submission with a required field absent or empty is answered 400
\* naming the first such field; no row is inserted and no sync is made.
C7_MissingField400 ==
    /\ OneRowPerCommit
    /\ \A r \in Requests :
        (pc[r] = "done" /\ ~RequiredPresent(data[r])) =>
            /\ response[r] = MissingField(FirstAbsentOrEmpty(data[r]))
            /\ new_guest[r] = 0
            /\ sync_calls[r] = 0
            /\ sheets[r] = "none"

\* An empty apellidos with asistencia absent was refused naming apellidos,
\* while the table holds a guest.
C7_Witness ==
    \E r \in Requests :
        /\ pc[r] = "done"
        /\ "asistencia" \notin DOMAIN data[r]
        /\ "apellidos" \in DOMAIN data[r] /\ data[r]["apellidos"] = <<>>
        /\ response[r].status = 400 /\ response[r].field = "apellidos"
        /\ Len(guests) = 1

C9_SyncAtMostOnceAfterCommit ==
    /\ [](\A r \in Requests :
            /\ sync_calls[r] <= 1
            /\ (sync_calls[r] = 1 => Inserted(r))
            /\ (response[r].status \in {400, 409} => sync_calls[r] = 0)
            /\ ((response[r].status = 500 /\ new_guest[r] = 0) => sync_calls[r] = 0)
            /\ (response[r].status = 201 => sync_calls[r] = 1))
    /\ [][\A r \in Requests :
            sync_calls'[r] # sync_calls[r] =>
                /\ new_guest[r] # 0
                /\ response[r].status = 0
                /\ response'[r].status # 0]_vars

\* One request synced once and failed; another was refused without a sync.
C9_Witness ==
    \E q, r \in Requests :
        /\ pc[q] = "done" /\ sync_calls[q] = 1 /\ SyncFailed(q)
        /\ pc[r] = "done" /\ response[r].status = 409 /\ sync_calls[r] = 0

\* C10: no two stored guests of one normalized first name have normalized
\* last names that match each other under the partial-surname rule.
C10_NoPartialPairStored ==
    \A i, j \in 1..Len(guests) :
        (i # j /\ guests[i].nombre_normalized = guests[j].nombre_normalized) =>
            ~OneWayMatch(guests[i].apellidos_normalized, guests[j].apellidos_normalized)

====
